---- MODULE Spec2Model ----
(***************************************************************************)
(* HawkEye frame scheduler (src/main.py): the websocket endpoint with its  *)
(* message reader, the periodic scanner_loop, the processing lock, and     *)
(* process_single_frame with its routing, trigger scan and forwarding.     *)
(*                                                                         *)
(* Text is modelled as sequences of one-character strings, so that lower,  *)
(* strip, split, join and substring search are computed, not assumed.      *)
(* Optional values (Python None) are sequences of length 0 or 1.           *)
(* Time is the value of time.time() in whole seconds.                      *)
(***************************************************************************)
EXTENDS Integers, Sequences, FiniteSets, TLC

\* ------------------------------------------------------------ option values
None == <<>>

Some(v) == <<v>>

IsSome(o) == o # <<>>

\* ------------------------------------------------------------------ strings
UpperLetters ==
    <<"A","B","C","D","E","F","G","H","I","J","K","L","M",
      "N","O","P","Q","R","S","T","U","V","W","X","Y","Z">>

LowerLetters ==
    <<"a","b","c","d","e","f","g","h","i","j","k","l","m",
      "n","o","p","q","r","s","t","u","v","w","x","y","z">>

Whitespace == {" ", "\n", "\t", "\r"}

UpperSet == {UpperLetters[i] : i \in 1..Len(UpperLetters)}

\* the lower-case letter of each upper-case one
LowerOf ==
    [c \in UpperSet |->
        LowerLetters[CHOOSE i \in 1..Len(UpperLetters) : UpperLetters[i] = c]]

\* str.lower() on one character
LowerChar(c) == IF c \in UpperSet THEN LowerOf[c] ELSE c

\* str.lower()
RECURSIVE Lower(_)
Lower(s) ==
    IF s = <<>> THEN <<>> ELSE <<LowerChar(Head(s))>> \o Lower(Tail(s))

RECURSIVE LStrip(_)
LStrip(s) ==
    IF s # <<>> /\ Head(s) \in Whitespace THEN LStrip(Tail(s)) ELSE s

RECURSIVE RStrip(_)
RStrip(s) ==
    IF s # <<>> /\ s[Len(s)] \in Whitespace
    THEN RStrip(SubSeq(s, 1, Len(s) - 1))
    ELSE s

\* str.strip()
Strip(s) == RStrip(LStrip(s))

\* whether needle occurs in hay at offset i (hay[i+1 .. i+Len(needle)])
MatchesAt(needle, hay, i) ==
    /\ i + Len(needle) <= Len(hay)
    /\ \A k \in 1..Len(needle) : hay[i + k] = needle[k]

\* Python's substring test `needle in hay`: some offset matches
Contains(needle, hay) ==
    \E i \in 0..(Len(hay) - Len(needle)) : MatchesAt(needle, hay, i)

\* index of the first occurrence of character c in s, 0 when absent
RECURSIVE IndexOf(_, _, _)
IndexOf(c, s, i) ==
    IF i > Len(s) THEN 0
    ELSE IF s[i] = c THEN i
    ELSE IndexOf(c, s, i + 1)

\* s.split(",")[1], for s containing a comma: the text between the first
\* comma and the second one (or the end)
SplitSecond(s) ==
    LET first == IndexOf(",", s, 1)
        rest  == SubSeq(s, first + 1, Len(s))
        next  == IndexOf(",", rest, 1)
    IN  IF next = 0 THEN rest ELSE SubSeq(rest, 1, next - 1)

\* sep.join(parts)
RECURSIVE Join(_, _)
Join(parts, sep) ==
    IF parts = <<>> THEN <<>>
    ELSE IF Len(parts) = 1 THEN parts[1]
    ELSE parts[1] \o sep \o Join(Tail(parts), sep)

DigitChars == <<"0","1","2","3","4","5","6","7","8","9">>

\* str(n) for a natural number
RECURSIVE Decimal(_)
Decimal(n) ==
    IF n < 10 THEN <<DigitChars[n + 1]>>
    ELSE Decimal(n \div 10) \o <<DigitChars[(n % 10) + 1]>>

\* --------------------------------------------------------- program constants
\* time.time() is compared in seconds (main.py:23)
FRAME_PROCESS_INTERVAL == 2

\* the idle sentinel prompt (main.py:292, 349, 364)
IDLE_SENTINEL ==
    <<"A","n","a","l","y","z","e"," ","t","h","i","s"," ","f","r","a","m","e",
      " ","a","c","c","o","r","d","i","n","g"," ","t","o"," ","t","h","e"," ",
      "s","y","s","t","e","m"," ","i","n","s","t","r","u","c","t","i","o","n",
      "s",".">>

\* the ambient description prompt (main.py:291)
AMBIENT_PROMPT ==
    <<"D","e","s","c","r","i","b","e"," ","w","h","a","t"," ","y","o","u"," ",
      "s","e","e"," ","i","n"," ","t","h","i","s"," ","f","r","a","m","e",".",
      " ","W","h","a","t","'","s"," ","h","a","p","p","e","n","i","n","g","?">>

\* face context appended to the prompt (main.py:300)
NOTE_PREFIX ==
    <<"\n","\n","N","o","t","e",":"," ","I","'","v","e"," ","d","e","t","e",
      "c","t","e","d",":"," ">>

\* the identity-query pattern (main.py:131)
WHO_IS_THIS ==
    <<"w","h","o"," ","i","s"," ","t","h","i","s">>

\* main.py:235
VLM_TIMEOUT_TEXT ==
    <<"I","'","m"," ","h","a","v","i","n","g"," ","t","r","o","u","b","l","e",
      " ","p","r","o","c","e","s","s","i","n","g"," ","t","h","e"," ","i","m",
      "a","g","e"," ","r","i","g","h","t"," ","n","o","w"," ","(","t","i","m",
      "e","o","u","t",")",".">>

\* main.py:238
VLM_CONNECT_TEXT ==
    <<"I","'","m"," ","h","a","v","i","n","g"," ","t","r","o","u","b","l","e",
      " ","c","o","n","n","e","c","t","i","n","g"," ","t","o"," ","t","h","e",
      " ","v","i","s","i","o","n"," ","m","o","d","e","l",".">>

\* main.py:241
VLM_UNEXPECTED_TEXT ==
    <<"A","n"," ","u","n","e","x","p","e","c","t","e","d"," ","e","r","r","o",
      "r"," ","o","c","c","u","r","r","e","d"," ","w","h","i","l","e"," ","a",
      "n","a","l","y","z","i","n","g"," ","t","h","e"," ","i","m","a","g","e",
      ".">>

\* main.py:232
VLM_NO_RESPONSE_TEXT ==
    <<"N","o"," ","r","e","s","p","o","n","s","e"," ","f","r","o","m"," ","m",
      "o","d","e","l",".">>

\* main.py:183
SPEECH_UNAVAILABLE_TEXT ==
    <<"S","p","e","e","c","h"," ","A","P","I"," ","i","s"," ","c","u","r","r",
      "e","n","t","l","y"," ","u","n","a","v","a","i","l","a","b","l","e",".">>

\* main.py:192
SPEECH_UNABLE_TEXT ==
    <<"U","n","a","b","l","e"," ","t","o"," ","p","r","o","c","e","s","s"," ",
      "s","p","e","e","c","h"," ","r","e","q","u","e","s","t",".">>

\* main.py:152
NO_FACES_TEXT ==
    <<"I"," ","d","o","n","'","t"," ","s","e","e"," ","a","n","y"," ","f","a",
      "c","e","s"," ","i","n"," ","t","h","e"," ","c","u","r","r","e","n","t",
      " ","f","r","a","m","e",".">>

\* main.py:148, 150
I_CAN_SEE ==
    <<"I"," ","c","a","n"," ","s","e","e"," ">>

\* main.py:150
UNRECOGNIZED_TAIL ==
    <<" ","p","e","r","s","o","n","(","s",")",","," ","b","u","t"," ","I"," ",
      "d","o","n","'","t"," ","r","e","c","o","g","n","i","z","e"," ","t","h",
      "e","m",".">>

\* main.py:100
UNKNOWN ==
    <<"U","n","k","n","o","w","n">>

\* a target word (main.py:26)
APPLE ==
    <<"a","p","p","l","e">>

\* a target word (main.py:26)
CELL_PHONE ==
    <<"c","e","l","l"," ","p","h","o","n","e">>

\* a target word (main.py:26)
WEAPON ==
    <<"w","e","a","p","o","n">>

\* a target word (main.py:26)
BOTTLE ==
    <<"b","o","t","t","l","e">>

\* a target word (main.py:26)
FALLING ==
    <<"f","a","l","l","i","n","g">>

\* main.py:26
TARGET_OBJECTS == <<APPLE, CELL_PHONE, WEAPON, BOTTLE, FALLING>>

\* a gallery name: the file name of known_faces/Alice.jpg (main.py:82)
ALICE ==
    <<"A","l","i","c","e">>

\* a gallery name: known_faces/Bob.png (main.py:82)
BOB ==
    <<"B","o","b">>

\* an explicit user prompt
USER_PROMPT ==
    <<"I","s"," ","i","t"," ","o","p","e","n","?">>

\* a spoken identity query
WHO_PROMPT ==
    <<" ","W","h","o"," ","i","s"," ","T","H","I","S","?"," ">>

\* a base64 frame sent bare
FRAME_A ==
    <<"Q","Q">>

\* a frame sent as a data URI; its payload is Qg
IMAGE_B ==
    <<"d","a","t","a",":",";","b","a","s","e","6","4",",","Q","g">>

\* a VLM answer naming two target words
TEXT_TWO_TRIGGERS ==
    <<" "," ","I"," ","s","e","e"," ","a","n"," ","A","p","p","l","e"," ","a",
      "n","d"," ","a"," ","b","o","t","t","l","e",".","\n">>

\* a VLM answer naming no target word
TEXT_CLEAR ==
    <<"c","l","e","a","r">>

\* an answer of the speech API
SPEECH_TEXT ==
    <<" ","I","t"," ","i","s"," ","n","o","o","n","."," ">>
\* the people a picture can be enrolled for
Persons == {ALICE, BOB}

VARIABLES
    known_face_names,   \* main.py:61, as load_known_faces left it (main.py:63-87)
    face_scene,         \* what is in front of the camera: the faces that
                        \* face_recognition finds in frame FRAME_A
    peer,               \* the locals and tasks of the other invocation of
                        \* websocket_endpoint (main.py:336-354)
    cur                 \* which of the two connections the session variables
                        \* below belong to

\* the gallery, the scene and the other connection are not changed by a
\* session's reader or scanner
environment == <<known_face_names, face_scene, peer, cur>>

\* a gallery of two pictures
GALLERY_TWO == <<ALICE, BOB>>

\* where the k-th face of a frame is found
LocationOf(k) ==
    IF k = 1 THEN [top |-> 10, right |-> 50, bottom |-> 60, left |-> 20]
    ELSE [top |-> 12, right |-> 90, bottom |-> 58, left |-> 70]

\* a detected face: its location and the distance (in hundredths) of its
\* encoding to the enrolled picture of each person
Face(k, to_alice, to_bob) ==
    [location |-> LocationOf(k), distances |-> (ALICE :> to_alice) @@ (BOB :> to_bob)]

\* two faces: one close to alice's picture, one close to nobody's
SCENE_TWO == <<Face(1, 30, 80), Face(2, 90, 70)>>

\* tolerance=0.6 in hundredths (main.py:99)
TOLERANCE == 60

\* ------------------------------------------------------------------ bounds
\* the value of time.time() when the connection is accepted
StartTime == 2

\* seconds of the session that are explored
Horizon == 2

\* detached forward_frame tasks in flight at once
MaxForwards == 2

MaxTime == StartTime + Horizon

\* ----------------------------------------------------------------- messages
\* A message is a JSON object: a function from the keys it carries.
\* dict.get(key, default)
Get(m, key, default) == IF key \in DOMAIN m THEN m[key] ELSE default

\* Python truthiness of a str or None
Truthy(s) == s # <<>>

MessageKeys == {"image", "prompt", "recognize_faces", "is_speech"}

\* the JSON object with the given image and prompt (None: key absent) and
\* the two flags (FALSE: key absent, which reads as the default False)
Message(image, prompt, faces, speech) ==
    LET keys == {k \in MessageKeys :
                    \/ k = "image" /\ IsSome(image)
                    \/ k = "prompt" /\ IsSome(prompt)
                    \/ k = "recognize_faces" /\ faces
                    \/ k = "is_speech" /\ speech}
    IN  [k \in keys |->
            IF k = "image" THEN image[1]
            ELSE IF k = "prompt" THEN prompt[1]
            ELSE TRUE]

\* every combination of prompt and flags on the bare frame
FrameMessages ==
    {Message(Some(FRAME_A), p, f, s) :
        p \in {None, Some(IDLE_SENTINEL), Some(USER_PROMPT), Some(WHO_PROMPT)},
        f \in BOOLEAN, s \in BOOLEAN}

\* the data-URI frame, one message per route; an empty prompt
UriMessages ==
    {Message(Some(IMAGE_B), None, FALSE, FALSE),
     Message(Some(IMAGE_B), None, TRUE, FALSE),
     Message(Some(IMAGE_B), Some(USER_PROMPT), TRUE, FALSE),
     Message(Some(IMAGE_B), Some(WHO_PROMPT), FALSE, TRUE),
     Message(Some(IMAGE_B), Some(<<>>), FALSE, TRUE)}

\* no image: the key missing, or empty
BareMessages ==
    {Message(None, Some(USER_PROMPT), FALSE, FALSE),
     Message(None, None, TRUE, FALSE),
     Message(Some(<<>>), Some(WHO_PROMPT), FALSE, TRUE)}

Messages == FrameMessages \cup UriMessages \cup BareMessages

\* what receive_text returns: a JSON object, or text json.loads rejects
InboundTexts ==
    {[json |-> TRUE, msg |-> m] : m \in Messages} \cup {[json |-> FALSE]}

\* --------------------------------------------------------- face recognition
\* face_locations and face_encodings of a decoded frame (main.py:94-95)
FaceScene(image_b64) == IF image_b64 = FRAME_A THEN face_scene ELSE <<>>

\* face_recognition.face_distance (main.py:103): one distance per gallery entry
face_distance(face) ==
    [i \in 1..Len(known_face_names) |-> face.distances[known_face_names[i]]]

\* base64.b64decode / Image.open succeed (main.py:92-93)
Decodable(image_b64) == image_b64 \in {FRAME_A, SplitSecond(IMAGE_B)}

\* np.argmin: the first index of the least distance
ArgMin(ds) ==
    CHOOSE i \in 1..Len(ds) :
        /\ \A j \in 1..Len(ds) : ds[i] <= ds[j]
        /\ \A j \in 1..(i - 1) : ds[j] > ds[i]

\* variant: the gallery is not tested for being empty; the nearest of all
\* people is taken
MatchFaceAnyPerson(face) ==
    LET nearest == CHOOSE p \in Persons :
                      \A q \in Persons : face.distances[p] <= face.distances[q]
        hit     == face.distances[nearest] <= TOLERANCE
    IN  [name       |-> IF hit THEN nearest ELSE UNKNOWN,
         location   |-> face.location,
         confidence |-> IF hit THEN 100 - face.distances[nearest] ELSE 0]

\* variant: a match needs a distance below the tolerance
MatchFaceStrict(face) ==
    LET ds      == face_distance(face)
        matches == [i \in 1..Len(ds) |-> ds[i] < TOLERANCE]
        best    == ArgMin(ds)
        hit     == known_face_names # <<>> /\ matches[best]
    IN  [name       |-> IF hit THEN known_face_names[best] ELSE UNKNOWN,
         location   |-> face.location,
         confidence |-> IF hit THEN 100 - ds[best] ELSE 0]

\* one iteration of the loop at main.py:98-113
MatchFace(face) ==
    LET ds      == face_distance(face)
        matches == [i \in 1..Len(ds) |-> ds[i] <= TOLERANCE]
        best    == ArgMin(ds)
        hit     == known_face_names # <<>> /\ matches[best]
    IN  [name       |-> IF hit THEN known_face_names[best] ELSE UNKNOWN,
         location   |-> face.location,
         confidence |-> IF hit THEN 100 - ds[best] ELSE 0]

recognize_faces_in_frame(image_b64) ==
    IF ~Decodable(image_b64)
    THEN [count |-> 0, faces |-> <<>>, error |-> TRUE]
    ELSE LET scene == FaceScene(image_b64)
             found == [i \in 1..Len(scene) |-> MatchFace(scene[i])]
         IN  [count |-> Len(found), faces |-> found]

IsRecognized(n) == n # UNKNOWN

\* [f["name"] for f in faces if f["name"] != "Unknown"] (main.py:144-145, 298)
RecognizedNames(face_results) ==
    SelectSeq([i \in 1..Len(face_results.faces) |-> face_results.faces[i].name],
              IsRecognized)

CommaSpace == <<",", " ">>

\* ------------------------------------------------------ process_single_frame
\* main.py:292: the prompt is the user's own
HasUserPrompt(user_prompt) == Truthy(user_prompt) /\ user_prompt # IDLE_SENTINEL

\* variant: the user's prompt is ignored
ChoosePromptAmbient(user_prompt) == AMBIENT_PROMPT

\* main.py:290-294
ChoosePrompt(user_prompt) ==
    IF HasUserPrompt(user_prompt) THEN user_prompt ELSE AMBIENT_PROMPT

\* variant: no face context is added
AddNoFaceContext(final_prompt, face_results) == final_prompt

\* variant: the note names every face found, unknown ones too
AddFaceContextAllNames(final_prompt, face_results) ==
    IF IsSome(face_results) /\ face_results[1].count > 0
    THEN final_prompt \o NOTE_PREFIX
            \o Join([i \in 1..Len(face_results[1].faces) |->
                       face_results[1].faces[i].name], CommaSpace) \o <<".">>
    ELSE final_prompt

\* main.py:296-300
AddFaceContext(final_prompt, face_results) ==
    IF IsSome(face_results) /\ face_results[1].count > 0
          /\ RecognizedNames(face_results[1]) # <<>>
    THEN final_prompt \o NOTE_PREFIX
            \o Join(RecognizedNames(face_results[1]), CommaSpace) \o <<".">>
    ELSE final_prompt

\* variant: the speech branch is never taken
IsSpeechRouteNever(message) == FALSE

\* main.py:249: the speech path is taken
IsSpeechRoute(message) ==
    Get(message, "is_speech", FALSE) /\ Truthy(Get(message, "prompt", None))

\* main.py:128-131
IsIdentityQuery(prompt_text) == Contains(WHO_IS_THIS, Strip(Lower(prompt_text)))

\* variant: the reply lists every detection, "Unknown" ones too
IdentityTextAllNames(face_results) ==
    IF face_results.count > 0
    THEN I_CAN_SEE \o Join([i \in 1..Len(face_results.faces) |->
                               face_results.faces[i].name], CommaSpace) \o <<".">>
    ELSE NO_FACES_TEXT

\* main.py:143-152
IdentityText(face_results) ==
    IF face_results.count > 0
    THEN IF RecognizedNames(face_results) # <<>>
         THEN I_CAN_SEE \o Join(RecognizedNames(face_results), CommaSpace) \o <<".">>
         ELSE I_CAN_SEE \o Decimal(face_results.count) \o UNRECOGNIZED_TAIL
    ELSE NO_FACES_TEXT

\* handle_speech_prompt up to its return, for an identity query (main.py:131-158)
IdentityResult(image_b64) ==
    IF ~Truthy(image_b64)
    THEN [type |-> "facial_recognition", error |-> TRUE]
    ELSE LET face_results == recognize_faces_in_frame(image_b64)
         IN  [type |-> "facial_recognition",
              face_results |-> face_results,
              response_text |-> IdentityText(face_results)]

\* the object sent at main.py:255-261
IdentityPayload(speech_result) ==
    [response       |-> Get(speech_result, "response_text", <<>>),
     faces          |-> IF "face_results" \in DOMAIN speech_result
                        THEN Some(speech_result.face_results) ELSE None,
     speech_handled |-> TRUE,
     should_speak   |-> TRUE,
     triggers       |-> <<>>]

\* the object sent at main.py:272-278
SpeechApiPayload(response_text) ==
    [response          |-> response_text,
     speech_api_result |-> [response |-> response_text],
     speech_handled    |-> TRUE,
     should_speak      |-> TRUE,
     triggers          |-> <<>>]

\* process_single_frame from its entry to its first await (main.py:244-304):
\* the stage it suspends in and its locals there
EnterFrame(image_data, message) ==
    LET user_prompt     == Get(message, "prompt", None)
        recognize_faces == Get(message, "recognize_faces", FALSE)
        locals == [image_data   |-> image_data,
                   message      |-> message,
                   face_results |-> None,
                   request      |-> None,
                   payload      |-> None]
    IN  IF IsSpeechRoute(message)
        THEN IF IsIdentityQuery(user_prompt)
             THEN [stage  |-> "send",
                   locals |-> [locals EXCEPT
                                 !.payload = Some(IdentityPayload(IdentityResult(image_data)))]]
             ELSE [stage  |-> "speech",
                   locals |-> [locals EXCEPT
                                 !.request = Some([api |-> "speech", text |-> user_prompt])]]
        ELSE LET face_results == IF recognize_faces
                                 THEN Some(recognize_faces_in_frame(image_data))
                                 ELSE None
                 final_prompt == AddFaceContext(ChoosePrompt(user_prompt), face_results)
             IN  [stage  |-> "vlm",
                  locals |-> [locals EXCEPT
                                !.face_results = face_results,
                                !.request = Some([api    |-> "ollama",
                                                  prompt |-> final_prompt,
                                                  image  |-> image_data])]]

\* ------------------------------------------------------------- query_ollama
VlmTexts == {TEXT_TWO_TRIGGERS}

\* how the POST to Ollama ends (main.py:224-241)
VlmOutcomes ==
    {[kind |-> "ok", response |-> r] : r \in VlmTexts}
      \cup {[kind |-> k] : k \in {"no_field", "not_text", "timeout",
                                   "request_error", "bad_status"}}

\* query_ollama's return value: text, or (is_str FALSE) the non-string value
\* a body such as {"response": null} makes .get("response", ...) return
query_ollama(outcome) ==
    CASE outcome.kind = "ok"            -> [is_str |-> TRUE, text |-> outcome.response]
      [] outcome.kind = "no_field"      -> [is_str |-> TRUE, text |-> VLM_NO_RESPONSE_TEXT]
      [] outcome.kind = "timeout"       -> [is_str |-> TRUE, text |-> VLM_TIMEOUT_TEXT]
      [] outcome.kind = "request_error" -> [is_str |-> TRUE, text |-> VLM_CONNECT_TEXT]
      [] outcome.kind = "bad_status"    -> [is_str |-> TRUE, text |-> VLM_UNEXPECTED_TEXT]
      [] outcome.kind = "not_text"      -> [is_str |-> FALSE, text |-> <<>>]

\* variant: a target word counts only at the start of the analysis
IsTriggerAtStart(obj, analysis_lower) == MatchesAt(Lower(obj), analysis_lower, 0)

\* whether target word obj is reported for the lowered analysis (main.py:310)
IsTrigger(obj, analysis_lower) == Contains(Lower(obj), analysis_lower)

\* main.py:309-310
TriggerScan(analysis_clean) ==
    LET analysis_lower == Lower(analysis_clean)
    IN  SelectSeq(TARGET_OBJECTS, LAMBDA obj : IsTrigger(obj, analysis_lower))

\* main.py:312-315: one detached forward_frame task per trigger
Dispatch(image_data, triggers) ==
    [i \in 1..Len(triggers) |-> [object |-> triggers[i], image |-> image_data]]

\* the object sent at main.py:319-323
ResultPayload(analysis_clean, face_results, triggers) ==
    [response |-> analysis_clean, faces |-> face_results, triggers |-> triggers]

\* how the GET to the speech API ends (main.py:164-195)
SpeechOutcomes ==
    {[kind |-> "ok", text |-> SPEECH_TEXT], [kind |-> "request_error"],
     [kind |-> "bad_status"]}

\* api_response["response"] of handle_speech_prompt's result (main.py:173-195)
SpeechApiText(outcome) ==
    CASE outcome.kind = "ok"            -> Strip(outcome.text)
      [] outcome.kind = "request_error" -> SPEECH_UNAVAILABLE_TEXT
      [] outcome.kind = "bad_status"    -> SPEECH_UNABLE_TEXT

\* -------------------------------------------------------------------- state
Tasks == {"reader", "scanner"}

VARIABLES
    now,                \* time.time(), in seconds
    conn,               \* the session: "OPEN" after accept, then "CLOSED"
    pc,                 \* where each task is suspended
    pass,               \* each task's process_single_frame locals, or None
    latest_frame,       \* main.py:337
    latest_message,     \* main.py:338
    last_process_time,  \* main.py:336
    processing_lock,    \* main.py:339
    cancel_requested,   \* scanner_task.cancel() was called and not yet delivered
    forwards,           \* the detached forward_frame tasks in flight
    last_completed      \* history: when the last pass ran to its end, or None

vars ==
    <<now, conn, pc, pass, latest_frame, latest_message, last_process_time,
      processing_lock, cancel_requested, forwards, last_completed,
      known_face_names, face_scene, peer, cur>>

\* the stages inside process_single_frame: its three awaits
PassStages == {"speech", "vlm", "send"}

InFlight(t) == pc[t] \in PassStages

\* what one invocation of websocket_endpoint owns: its socket, its locals
\* (main.py:336-339), its two tasks and their passes
Session ==
    [conn              |-> conn,
     pc                |-> pc,
     pass              |-> pass,
     latest_frame      |-> latest_frame,
     latest_message    |-> latest_message,
     last_process_time |-> last_process_time,
     processing_lock   |-> processing_lock,
     cancel_requested  |-> cancel_requested,
     last_completed    |-> last_completed]

\* a connection right after accept (main.py:333-354)
SessionAtAccept ==
    [conn              |-> "OPEN",
     pc                |-> [t \in Tasks |-> IF t = "reader" THEN "recv" ELSE "sleep"],
     pass              |-> [t \in Tasks |-> None],
     latest_frame      |-> None,
     latest_message    |-> None,
     last_process_time |-> 0,
     processing_lock   |-> [locked |-> FALSE, waiters |-> <<>>],
     cancel_requested  |-> FALSE,
     last_completed    |-> None]

\* the session's state after accept (main.py:333-354), a second connection
\* accepted beside it
InitSession ==
    /\ peer = SessionAtAccept
    /\ cur = 1
    /\ now = StartTime
    /\ conn = "OPEN"
    /\ pc = [t \in Tasks |-> IF t = "reader" THEN "recv" ELSE "sleep"]
    /\ pass = [t \in Tasks |-> None]
    /\ latest_frame = None
    /\ latest_message = None
    /\ last_process_time = 0
    /\ processing_lock = [locked |-> FALSE, waiters |-> <<>>]
    /\ cancel_requested = FALSE
    /\ forwards = <<>>
    /\ last_completed = None

Init ==
    /\ InitSession
    /\ known_face_names = GALLERY_TWO
    /\ face_scene = SCENE_TWO

\* ------------------------------------------------------------- asyncio.Lock
\* Lock.acquire's fast path: free and nobody queued
CanAcquire(lock) == ~lock.locked /\ lock.waiters = <<>>

\* Lock.release: unlock and resolve the first waiter's future
Release(lock) ==
    [locked  |-> FALSE,
     waiters |-> IF lock.waiters = <<>> THEN <<>>
                 ELSE [lock.waiters EXCEPT ![1].woken = TRUE]]

RemoveAt(s, i) == SubSeq(s, 1, i - 1) \o SubSeq(s, i + 1, Len(s))

\* The event loop runs callbacks that are already ready (a waiter whose
\* future was resolved, a requested cancellation) before it looks at timers
\* or at new I/O.
ReadyIn(session) ==
    \/ session.cancel_requested
    \/ \E i \in 1..Len(session.processing_lock.waiters) :
          session.processing_lock.waiters[i].woken

\* one event loop serves every connection
ReadyPending == ReadyIn(Session) \/ ReadyIn(peer)

\* ----------------------------------------------------------- the lock's body
\* main.py:364
NeedsImmediatePass(msg) ==
    \/ Get(msg, "recognize_faces", FALSE)
    \/ HasUserPrompt(Get(msg, "prompt", None))

\* variant: every stored message counts as idle
IsIdleAlways(message) == TRUE

\* main.py:348-349
IsIdle(message) ==
    \/ ~Truthy(Get(message, "prompt", None))
    \/ Get(message, "prompt", None) = IDLE_SENTINEL

\* main.py:345, the first two conditions of the scanner's tick
ScanDue ==
    /\ IsSome(latest_frame) /\ Truthy(latest_frame[1])
    /\ now - last_process_time >= FRAME_PROCESS_INTERVAL

\* task t calls process_single_frame holding the lock (main.py:351, 366)
Enter(t, image_data, message, lock) ==
    LET e == EnterFrame(image_data, message)
    IN  /\ pc' = [pc EXCEPT ![t] = e.stage]
        /\ pass' = [pass EXCEPT ![t] = Some(e.locals)]
        /\ processing_lock' = lock

\* variant: the timer runs a pass on whatever message is stored
ScannerBodyAnyMessage(lock) ==
    IF latest_message = None
    THEN /\ pc' = [pc EXCEPT !["scanner"] = "crashed"]
         /\ pass' = pass
         /\ processing_lock' = Release(lock)
    ELSE Enter("scanner", latest_frame[1], latest_message[1], lock)

\* the scanner's body under the lock (main.py:348-352)
ScannerBody(lock) ==
    IF latest_message = None
    THEN /\ pc' = [pc EXCEPT !["scanner"] = "crashed"]
         /\ pass' = pass
         /\ processing_lock' = Release(lock)
    ELSE IF IsIdle(latest_message[1])
    THEN Enter("scanner", latest_frame[1], latest_message[1], lock)
    ELSE /\ pc' = [pc EXCEPT !["scanner"] = "sleep"]
         /\ pass' = pass
         /\ processing_lock' = Release(lock)

\* the body of `async with processing_lock` of task t, the lock now held
LockBody(t, image_data, message, lock) ==
    IF t = "reader"
    THEN Enter("reader", image_data, message, lock)
    ELSE ScannerBody(lock)

\* variant: the body runs without taking the lock
AsyncWithNoLock(t, image_data, message) ==
    LockBody(t, image_data, message, processing_lock)

\* `async with processing_lock:` (main.py:347, 365): enter, or queue
AsyncWith(t, image_data, message) ==
    IF CanAcquire(processing_lock)
    THEN LockBody(t, image_data, message, [processing_lock EXCEPT !.locked = TRUE])
    ELSE /\ pc' = [pc EXCEPT ![t] = "lock"]
         /\ pass' = pass
         /\ processing_lock' =
               [processing_lock EXCEPT
                  !.waiters = Append(@, [task |-> t, woken |-> FALSE])]

\* variant: last_process_time is not updated after a pass
EndPassNoStamp(t) ==
    /\ pc' = [pc EXCEPT ![t] = IF t = "reader" THEN "recv" ELSE "sleep"]
    /\ pass' = [pass EXCEPT ![t] = None]
    /\ processing_lock' = Release(processing_lock)
    /\ last_process_time' = last_process_time
    /\ last_completed' = Some(now)

\* process_single_frame returned: main.py:352 / 367 and the lock's release
EndPass(t) ==
    /\ pc' = [pc EXCEPT ![t] = IF t = "reader" THEN "recv" ELSE "sleep"]
    /\ pass' = [pass EXCEPT ![t] = None]
    /\ processing_lock' = Release(processing_lock)
    /\ last_process_time' = now
    /\ last_completed' = Some(now)

\* variant: an exception leaves the lock held
RaiseFromPassKeepsLock(t) ==
    /\ pc' = [pc EXCEPT ![t] = "crashed"]
    /\ pass' = [pass EXCEPT ![t] = None]
    /\ processing_lock' = processing_lock
    /\ conn' = IF t = "reader" THEN "CLOSED" ELSE conn

\* an exception leaves process_single_frame: the lock is released on the way
\* out; the reader's leaves websocket_endpoint too (only WebSocketDisconnect
\* is caught, main.py:369) and the server closes the socket; the scanner's
\* ends the scanner task
RaiseFromPass(t) ==
    /\ pc' = [pc EXCEPT ![t] = "crashed"]
    /\ pass' = [pass EXCEPT ![t] = None]
    /\ processing_lock' = Release(processing_lock)
    /\ conn' = IF t = "reader" THEN "CLOSED" ELSE conn

\* ------------------------------------------------------------------ actions
\* variant: the image key is tested for presence, not for content
ReaderReceiveAnyImage(data) ==
    /\ UNCHANGED environment
    /\ pc["reader"] = "recv"
    /\ conn = "OPEN"
    /\ ~ReadyPending
    /\ IF ~data.json
       THEN \* json.loads raises; nothing catches it (main.py:359, 369)
            /\ pc' = [pc EXCEPT !["reader"] = "crashed"]
            /\ conn' = "CLOSED"
            /\ UNCHANGED <<pass, latest_frame, latest_message, processing_lock>>
       ELSE IF "image" \in DOMAIN data.msg
       THEN LET image == data.msg["image"]
                frame == IF Contains(<<",">>, image) THEN SplitSecond(image) ELSE image
            IN  /\ latest_frame' = Some(frame)
                /\ latest_message' = Some(data.msg)
                /\ conn' = conn
                /\ IF NeedsImmediatePass(data.msg)
                   THEN AsyncWith("reader", frame, data.msg)
                   ELSE UNCHANGED <<pc, pass, processing_lock>>
       ELSE UNCHANGED <<pc, conn, pass, latest_frame, latest_message, processing_lock>>
    /\ UNCHANGED <<now, last_process_time, cancel_requested, forwards, last_completed>>

\* variant: latest_message is stored for the first frame only
ReaderReceiveKeepsMessage(data) ==
    /\ UNCHANGED environment
    /\ pc["reader"] = "recv"
    /\ conn = "OPEN"
    /\ ~ReadyPending
    /\ IF ~data.json
       THEN \* json.loads raises; nothing catches it (main.py:359, 369)
            /\ pc' = [pc EXCEPT !["reader"] = "crashed"]
            /\ conn' = "CLOSED"
            /\ UNCHANGED <<pass, latest_frame, latest_message, processing_lock>>
       ELSE IF Truthy(Get(data.msg, "image", None))
       THEN LET image == data.msg["image"]
                frame == IF Contains(<<",">>, image) THEN SplitSecond(image) ELSE image
            IN  /\ latest_frame' = Some(frame)
                /\ latest_message' = IF latest_message = None THEN Some(data.msg)
                                     ELSE latest_message
                /\ conn' = conn
                /\ IF NeedsImmediatePass(data.msg)
                   THEN AsyncWith("reader", frame, data.msg)
                   ELSE UNCHANGED <<pc, pass, processing_lock>>
       ELSE UNCHANGED <<pc, conn, pass, latest_frame, latest_message, processing_lock>>
    /\ UNCHANGED <<now, last_process_time, cancel_requested, forwards, last_completed>>

\* main.py:358-367: one message read by the reader
ReaderReceive(data) ==
    /\ UNCHANGED environment
    /\ pc["reader"] = "recv"
    /\ conn = "OPEN"
    /\ ~ReadyPending
    /\ IF ~data.json
       THEN \* json.loads raises; nothing catches it (main.py:359, 369)
            /\ pc' = [pc EXCEPT !["reader"] = "crashed"]
            /\ conn' = "CLOSED"
            /\ UNCHANGED <<pass, latest_frame, latest_message, processing_lock>>
       ELSE IF Truthy(Get(data.msg, "image", None))
       THEN LET image == data.msg["image"]
                frame == IF Contains(<<",">>, image) THEN SplitSecond(image) ELSE image
            IN  /\ latest_frame' = Some(frame)
                /\ latest_message' = Some(data.msg)
                /\ conn' = conn
                /\ IF NeedsImmediatePass(data.msg)
                   THEN AsyncWith("reader", frame, data.msg)
                   ELSE UNCHANGED <<pc, pass, processing_lock>>
       ELSE UNCHANGED <<pc, conn, pass, latest_frame, latest_message, processing_lock>>
    /\ UNCHANGED <<now, last_process_time, cancel_requested, forwards, last_completed>>

\* a queued task's future was resolved: it takes the lock and runs the body
LockAcquired(t) ==
    /\ UNCHANGED environment
    /\ \E i \in 1..Len(processing_lock.waiters) :
          /\ processing_lock.waiters[i] = [task |-> t, woken |-> TRUE]
          /\ LockBody(t, latest_frame[1], latest_message[1],
                      [locked  |-> TRUE,
                       waiters |-> RemoveAt(processing_lock.waiters, i)])
    /\ UNCHANGED <<now, conn, latest_frame, latest_message, last_process_time,
                   cancel_requested, forwards, last_completed>>

\* variant: the scanner does not look at processing_lock.locked()
ScannerTickQueues ==
    /\ UNCHANGED environment
    /\ pc["scanner"] = "sleep"
    /\ ~ReadyPending
    /\ IF ScanDue
       THEN AsyncWith("scanner", latest_frame[1], latest_message[1])
       ELSE UNCHANGED <<pc, pass, processing_lock>>
    /\ UNCHANGED <<now, conn, latest_frame, latest_message, last_process_time,
                   cancel_requested, forwards, last_completed>>

\* main.py:344-352: the scanner wakes from its 0.1 s sleep, shorter than one
\* step of the clock, and runs to its next await
ScannerTick ==
    /\ UNCHANGED environment
    /\ pc["scanner"] = "sleep"
    /\ ~ReadyPending
    /\ IF ScanDue /\ ~processing_lock.locked
       THEN AsyncWith("scanner", latest_frame[1], latest_message[1])
       ELSE UNCHANGED <<pc, pass, processing_lock>>
    /\ UNCHANGED <<now, conn, latest_frame, latest_message, last_process_time,
                   cancel_requested, forwards, last_completed>>

\* main.py:164-195, 266-281: the speech API call ends, the reply is built
SpeechReturn(t, outcome) ==
    /\ UNCHANGED environment
    /\ pc[t] = "speech"
    /\ ~ReadyPending
    /\ pc' = [pc EXCEPT ![t] = "send"]
    /\ pass' = [pass EXCEPT ![t] =
                  Some([pass[t][1] EXCEPT
                          !.request = None,
                          !.payload = Some(SpeechApiPayload(SpeechApiText(outcome)))])]
    /\ UNCHANGED <<now, conn, latest_frame, latest_message, last_process_time,
                   processing_lock, cancel_requested, forwards, last_completed>>

\* main.py:304-315: query_ollama returns; strip, trigger scan, dispatch
VlmReturn(t, outcome) ==
    /\ UNCHANGED environment
    /\ pc[t] = "vlm"
    /\ ~ReadyPending
    /\ LET analysis == query_ollama(outcome)
           p        == pass[t][1]
       IN  IF ~analysis.is_str
           THEN \* analysis.strip() raises AttributeError (main.py:305)
                /\ RaiseFromPass(t)
                /\ forwards' = forwards
           ELSE LET analysis_clean == Strip(analysis.text)
                    triggers       == TriggerScan(analysis_clean)
                IN  /\ Len(forwards) + Len(triggers) <= MaxForwards
                    /\ forwards' = forwards \o Dispatch(p.image_data, triggers)
                    /\ pc' = [pc EXCEPT ![t] = "send"]
                    /\ pass' = [pass EXCEPT ![t] =
                                  Some([p EXCEPT
                                          !.request = None,
                                          !.payload = Some(ResultPayload(analysis_clean,
                                                             p.face_results, triggers))])]
                    /\ UNCHANGED <<conn, processing_lock>>
    /\ UNCHANGED <<now, latest_frame, latest_message, last_process_time,
                   cancel_requested, last_completed>>

\* variant: the result is sent once the forwards have ended
SendDoneAfterForwards(t) ==
    /\ UNCHANGED environment
    /\ pc[t] = "send"
    /\ ~ReadyPending
    /\ forwards = <<>>
    /\ EndPass(t)
    /\ UNCHANGED <<now, conn, latest_frame, latest_message, cancel_requested, forwards>>

\* main.py:254-264, 271-281, 318-325: send_json ends, delivered when the
\* session is open and failing into the bare except otherwise
SendDone(t) ==
    /\ UNCHANGED environment
    /\ pc[t] = "send"
    /\ ~ReadyPending
    /\ EndPass(t)
    /\ UNCHANGED <<now, conn, latest_frame, latest_message, cancel_requested, forwards>>

\* variant: a disconnect ends the reader's pass in flight
ClientDisconnectAborts ==
    /\ UNCHANGED environment
    /\ conn = "OPEN"
    /\ ~ReadyPending
    /\ conn' = "CLOSED"
    /\ IF InFlight("reader")
       THEN /\ pc' = [pc EXCEPT !["reader"] = "done"]
            /\ pass' = [pass EXCEPT !["reader"] = None]
            /\ processing_lock' = Release(processing_lock)
       ELSE UNCHANGED <<pc, pass, processing_lock>>
    /\ UNCHANGED <<now, latest_frame, latest_message, last_process_time,
                   cancel_requested, forwards, last_completed>>

\* the client goes away, or the network does
ClientDisconnect ==
    /\ UNCHANGED environment
    /\ conn = "OPEN"
    /\ ~ReadyPending
    /\ conn' = "CLOSED"
    /\ UNCHANGED <<now, pc, pass, latest_frame, latest_message, last_process_time,
                   processing_lock, cancel_requested, forwards, last_completed>>

\* main.py:358, 369-371: receive_text raises WebSocketDisconnect
ReaderDisconnect ==
    /\ UNCHANGED environment
    /\ pc["reader"] = "recv"
    /\ conn = "CLOSED"
    /\ ~ReadyPending
    /\ pc' = [pc EXCEPT !["reader"] = "done"]
    /\ cancel_requested' = (pc["scanner"] \notin {"cancelled", "crashed"})
    /\ UNCHANGED <<now, conn, pass, latest_frame, latest_message, last_process_time,
                   processing_lock, forwards, last_completed>>

\* CancelledError is thrown into the scanner at the await it is suspended in
DeliverCancel ==
    /\ UNCHANGED environment
    /\ cancel_requested
    /\ cancel_requested' = FALSE
    /\ IF pc["scanner"] = "send"
       THEN \* the bare except at main.py:262, 279, 324 catches it
            EndPass("scanner")
       ELSE /\ pc' = [pc EXCEPT !["scanner"] = "cancelled"]
            /\ pass' = [pass EXCEPT !["scanner"] = None]
            /\ processing_lock' =
                  IF InFlight("scanner") THEN Release(processing_lock)
                  ELSE [processing_lock EXCEPT
                          !.waiters = SelectSeq(@, LAMBDA w : w.task # "scanner")]
            /\ UNCHANGED <<last_process_time, last_completed>>
    /\ UNCHANGED <<now, conn, latest_frame, latest_message, forwards>>

\* main.py:198-218: one forward_frame task ends (answer, timeout or error)
ForwardDone(i) ==
    /\ UNCHANGED environment
    /\ i \in 1..Len(forwards)
    /\ forwards' = RemoveAt(forwards, i)
    /\ UNCHANGED <<now, conn, pc, pass, latest_frame, latest_message,
                   last_process_time, processing_lock, cancel_requested, last_completed>>

\* a second passes
Tick ==
    /\ UNCHANGED environment
    /\ now < MaxTime
    /\ ~ReadyPending
    /\ now' = now + 1
    /\ UNCHANGED <<conn, pc, pass, latest_frame, latest_message, last_process_time,
                   processing_lock, cancel_requested, forwards, last_completed>>

\* variant: processing_lock is one lock of the module, not a local of each
\* invocation
SwitchConnectionSharedLock ==
    /\ cur' = 3 - cur
    /\ peer' = Session
    /\ conn' = peer.conn
    /\ pc' = peer.pc
    /\ pass' = peer.pass
    /\ latest_frame' = peer.latest_frame
    /\ latest_message' = peer.latest_message
    /\ last_process_time' = peer.last_process_time
    /\ processing_lock' = processing_lock
    /\ cancel_requested' = peer.cancel_requested
    /\ last_completed' = peer.last_completed
    /\ UNCHANGED <<now, forwards, known_face_names, face_scene>>

\* The event loop turns to the tasks of the other connection.  Each
\* invocation of websocket_endpoint has its own locals (main.py:336-339) and
\* its own scanner task (main.py:354); time.time(), the detached forwards and
\* the gallery belong to the process.
SwitchConnection ==
    /\ cur' = 3 - cur
    /\ peer' = Session
    /\ conn' = peer.conn
    /\ pc' = peer.pc
    /\ pass' = peer.pass
    /\ latest_frame' = peer.latest_frame
    /\ latest_message' = peer.latest_message
    /\ last_process_time' = peer.last_process_time
    /\ processing_lock' = peer.processing_lock
    /\ cancel_requested' = peer.cancel_requested
    /\ last_completed' = peer.last_completed
    /\ UNCHANGED <<now, forwards, known_face_names, face_scene>>

Next ==
    \/ \E data \in InboundTexts : ReaderReceive(data)
    \/ \E t \in Tasks : LockAcquired(t)
    \/ ScannerTick
    \/ \E t \in Tasks, outcome \in SpeechOutcomes : SpeechReturn(t, outcome)
    \/ \E t \in Tasks, outcome \in VlmOutcomes : VlmReturn(t, outcome)
    \/ \E t \in Tasks : SendDone(t)
    \/ ClientDisconnect
    \/ ReaderDisconnect
    \/ DeliverCancel
    \/ \E i \in 1..MaxForwards : ForwardDone(i)
    \/ Tick

Spec == Init /\ [][Next]_vars

\* ------------------------------------------------- answers for the trigger scan
\* pieces of VLM answers: whole target words in other case, halves of target
\* words, and a word that only contains one
FRAG_APPLE ==
    <<"A","p","p","l","e">>

FRAG_BOTTLE ==
    <<" ","a"," ","B","O","T","T","L","E">>

FRAG_CELL ==
    <<"c","e","l","l"," ">>

FRAG_PHONE ==
    <<"P","h","o","n","e">>

FRAG_WEAP ==
    <<"w","e","a","p">>

FRAG_ON ==
    <<"o","n">>

Fragments == {FRAG_APPLE, FRAG_BOTTLE, FRAG_CELL, FRAG_PHONE, FRAG_WEAP, FRAG_ON}
\* how many fragments an answer is made of
MaxFragments == 3

RECURSIVE TextsUpTo(_)
TextsUpTo(n) ==
    IF n = 0 THEN {<<>>}
    ELSE LET shorter == TextsUpTo(n - 1)
         IN  shorter \cup {f \o t : f \in Fragments, t \in shorter}

ScanTexts == {TEXT_TWO_TRIGGERS} \cup TextsUpTo(MaxFragments)

ScanMessages ==
    {Message(Some(FRAME_A), Some(USER_PROMPT), FALSE, FALSE),
     Message(Some(IMAGE_B), None, TRUE, FALSE)}

\* the session restricted to message-initiated passes, with every answer of
\* ScanTexts returned by the VLM
NextScan ==
    \/ \E m \in ScanMessages : ReaderReceive([json |-> TRUE, msg |-> m])
    \/ \E t \in Tasks, r \in ScanTexts : VlmReturn(t, [kind |-> "ok", response |-> r])
    \/ \E t \in Tasks : SendDone(t)
    \/ \E i \in 1..MaxForwards : ForwardDone(i)

SpecScan == Init /\ [][NextScan]_vars


\* -------------------------------------------------- galleries and scenes
\* faces in one frame
MaxFaces == 2

\* distances of a face to a picture: a match, the tolerance itself, none
Distances == {30, 60, 61}

\* the galleries load_known_faces can leave: pictures of distinct people
Galleries ==
    {g \in UNION {[1..n -> Persons] : n \in 0..Cardinality(Persons)} :
        \A i, j \in 1..Len(g) : g[i] = g[j] => i = j}

Scenes ==
    UNION {{[k \in 1..n |-> Face(k, d[k][1], d[k][2])] :
               d \in [1..n -> Distances \X Distances]} : n \in 0..MaxFaces}

\* a face-only message, a speech identity query, a query with faces
FaceMessages ==
    {Message(Some(FRAME_A), None, TRUE, FALSE),
     Message(Some(FRAME_A), Some(WHO_PROMPT), FALSE, TRUE),
     Message(Some(FRAME_A), Some(USER_PROMPT), TRUE, FALSE)}

InitFaces ==
    /\ InitSession
    /\ known_face_names \in Galleries
    /\ face_scene \in Scenes

\* message-initiated passes over every gallery and scene
NextFaces ==
    \/ \E m \in FaceMessages : ReaderReceive([json |-> TRUE, msg |-> m])
    \/ \E t \in Tasks : VlmReturn(t, [kind |-> "timeout"])
    \/ \E t \in Tasks : SendDone(t)

SpecFaces == InitFaces /\ [][NextFaces]_vars

\* ------------------------------------------------------- two connections
\* a frame for the timer, and a question about a frame
PairMessages ==
    {Message(Some(FRAME_A), None, FALSE, FALSE),
     Message(Some(FRAME_A), Some(USER_PROMPT), FALSE, FALSE)}

\* two clients connected at once, each with frames for the timer and with
\* questions and each free to leave, the VLM slow to answer or answering null
NextPair ==
    \/ \E m \in PairMessages : ReaderReceive([json |-> TRUE, msg |-> m])
    \/ \E t \in Tasks : LockAcquired(t)
    \/ ScannerTick
    \/ \E t \in Tasks, k \in {"timeout", "not_text"} : VlmReturn(t, [kind |-> k])
    \/ \E t \in Tasks : SendDone(t)
    \/ ClientDisconnect
    \/ ReaderDisconnect
    \/ DeliverCancel
    \/ Tick
    \/ SwitchConnection

SpecPair == Init /\ [][NextPair]_vars

\* ---------------------------------------------------------------- fairness
\* The event loop runs every callback that is ready (a woken waiter, a
\* requested cancellation), and the backend calls and the send return.
Fairness ==
    /\ WF_vars(DeliverCancel)
    /\ \A t \in Tasks :
          /\ WF_vars(LockAcquired(t))
          /\ WF_vars(\E outcome \in VlmOutcomes : VlmReturn(t, outcome))
          /\ WF_vars(\E outcome \in SpeechOutcomes : SpeechReturn(t, outcome))
          /\ WF_vars(SendDone(t))

FairSpec == Spec /\ Fairness

\* ------------------------------------------------- the timer and a question
\* frames left for the timer (no prompt, the sentinel) and a question
TimerMessages ==
    {Message(Some(FRAME_A), None, FALSE, FALSE),
     Message(Some(FRAME_A), Some(IDLE_SENTINEL), FALSE, FALSE),
     Message(Some(FRAME_A), Some(USER_PROMPT), FALSE, FALSE)}

\* one connection whose client sends frames for the timer and questions and
\* may leave; every way the POST to Ollama ends
NextTimer ==
    \/ \E m \in TimerMessages : ReaderReceive([json |-> TRUE, msg |-> m])
    \/ \E t \in Tasks : LockAcquired(t)
    \/ ScannerTick
    \/ \E t \in Tasks, outcome \in VlmOutcomes : VlmReturn(t, outcome)
    \/ \E t \in Tasks : SendDone(t)
    \/ ClientDisconnect
    \/ ReaderDisconnect
    \/ DeliverCancel
    \/ \E i \in 1..MaxForwards : ForwardDone(i)
    \/ Tick

SpecTimer == Init /\ [][NextTimer]_vars

\* asyncio.sleep(0.1) returns (main.py:344): a tick that has something to do
\* is taken
TimerFairness == WF_vars(ScannerTick)

FairTimer == SpecTimer /\ Fairness /\ TimerFairness
\* =================================================================== claims
IsPrefix(p, s) == Len(p) <= Len(s) /\ SubSeq(s, 1, Len(p)) = p

PromptOf(m) == Get(m, "prompt", None)

\* the locals of task t's pass in flight
Locals(t) == pass[t][1]

\* a frame-bearing message with an explicit prompt and no speech flag
ExplicitQuery(m) ==
    /\ Truthy(Get(m, "image", None))
    /\ PromptOf(m) # <<>> /\ PromptOf(m) # IDLE_SENTINEL
    /\ ~Get(m, "is_speech", FALSE)

\* the note process_single_frame appends for the recognized names
FaceNote(names) == NOTE_PREFIX \o Join(names, CommaSpace) \o <<".">>

\* ---------------------------------------------------------------------- C1
\* C1: on one connection at most one execution of process_single_frame,
\* started by the reader or by the scanner, is in flight at any instant.
C1_AtMostOneInFlight == Cardinality({t \in Tasks : InFlight(t)}) <= 1

\* a message that needs a pass arrived while a timer pass is in flight
C1_Witness == InFlight("scanner") /\ pc["reader"] = "lock"

\* ---------------------------------------------------------------------- C2
ScannerStartsPass == ~InFlight("scanner") /\ InFlight("scanner")'

\* C2: a timer-initiated pass never starts less than FRAME_PROCESS_INTERVAL
\* seconds after the previous pass on the connection ran to its end, whoever
\* started that pass.
C2_TimerKeepsInterval ==
    [][ScannerStartsPass =>
          \/ last_completed = None
          \/ now - last_completed[1] >= FRAME_PROCESS_INTERVAL]_vars

\* a timer pass in flight that follows a completed pass
C2_Witness ==
    /\ InFlight("scanner")
    /\ IsSome(last_completed)
    /\ now - last_completed[1] = FRAME_PROCESS_INTERVAL

\* ---------------------------------------------------------------------- C3
\* the reader's VLM call for message m carries m's prompt, not the ambient one
ReaderQueries(m) ==
    /\ pc["reader"] = "vlm"
    /\ Locals("reader").message = m
    /\ Locals("reader").request[1].api = "ollama"
    /\ IsPrefix(PromptOf(m), Locals("reader").request[1].prompt)
    /\ ~IsPrefix(AMBIENT_PROMPT, Locals("reader").request[1].prompt)

\* the reader waits for the lock with message m
ReaderQueued(m) == pc["reader"] = "lock" /\ latest_message = Some(m)

\* C3: every frame-bearing message with an explicit prompt (is_speech false)
\* leads to a VLM call of the reader with the user's prompt: at once, or,
\* when a pass is in flight, as soon as the reader gets the lock; it is
\* never dropped and never asked with the ambient prompt.
C3_ExplicitPromptAnswered ==
    [][/\ \A m \in Messages :
             (ExplicitQuery(m) /\ ReaderReceive([json |-> TRUE, msg |-> m]))
                => (ReaderQueries(m) \/ ReaderQueued(m))'
       /\ \A m \in Messages :
             (ExplicitQuery(m) /\ ReaderQueued(m) /\ ~ReaderQueued(m)')
                => ReaderQueries(m)']_vars

\* an explicit prompt arrived while a timer pass is in flight
C3_Witness ==
    /\ InFlight("scanner")
    /\ pc["reader"] = "lock"
    /\ ExplicitQuery(latest_message[1])

\* ---------------------------------------------------------------------- C4
\* C4: the scanner runs a pass only on a message whose prompt is empty or
\* the idle sentinel, and a timer-initiated VLM call carries the ambient
\* prompt, never a user's, also when the reader overwrites latest_message
\* during the pass.
C4_ScannerOnlyIdle ==
    InFlight("scanner") =>
        /\ PromptOf(Locals("scanner").message) \in {<<>>, IDLE_SENTINEL}
        /\ pc["scanner"] = "vlm" =>
              IsPrefix(AMBIENT_PROMPT, Locals("scanner").request[1].prompt)

\* a timer pass at its VLM call while the slot holds a newer explicit prompt
C4_Witness ==
    /\ pc["scanner"] = "vlm"
    /\ ExplicitQuery(latest_message[1])

\* ---------------------------------------------------------------------- C5
\* recognize_faces set and no prompt
FaceOnly(m) == Get(m, "recognize_faces", FALSE) /\ PromptOf(m) = <<>>

\* C5 as stated: a pass for a message with recognize_faces and no prompt
\* makes no VLM call.
C5_FaceOnlySkipsVlm ==
    \A t \in Tasks : (InFlight(t) /\ FaceOnly(Locals(t).message)) => pc[t] # "vlm"

\* C5 amended: a pass for a message with recognize_faces and no prompt runs
\* face matching and then calls the VLM with the ambient prompt, followed by
\* the note naming the recognized faces when there are any; the faces found
\* are part of the result.
C5_FaceOnlyRunsVlm ==
    \A t \in Tasks :
        (InFlight(t) /\ FaceOnly(Locals(t).message)) =>
            LET l     == Locals(t)
                names == IF IsSome(l.face_results)
                         THEN SelectSeq([i \in 1..Len(l.face_results[1].faces) |->
                                            l.face_results[1].faces[i].name],
                                        LAMBDA n : n # UNKNOWN)
                         ELSE <<>>
            IN  /\ IsSome(l.face_results)
                /\ pc[t] \in {"vlm", "send"}
                /\ pc[t] = "vlm" =>
                      l.request[1].prompt =
                          IF names = <<>> THEN AMBIENT_PROMPT
                          ELSE AMBIENT_PROMPT \o FaceNote(names)
                /\ pc[t] = "send" => l.payload[1].faces = l.face_results

\* a face-only message at its VLM call, a known face in the frame
C5_Witness ==
    \E t \in Tasks :
        /\ pc[t] = "vlm"
        /\ FaceOnly(Locals(t).message)
        /\ Locals(t).face_results[1].count > 0
        /\ Locals(t).request[1].prompt # AMBIENT_PROMPT

\* ---------------------------------------------------------------------- C6
\* is_speech set and a non-empty prompt
SpeechMessage(m) == Get(m, "is_speech", FALSE) /\ PromptOf(m) # <<>>

\* C6: a pass for a message with is_speech and a non-empty prompt never
\* calls the VLM: it waits for the speech API or sends a reply marked
\* speech_handled, whatever recognize_faces and the prompt text are.
C6_SpeechNeverCallsVlm ==
    \A t \in Tasks :
        (InFlight(t) /\ SpeechMessage(Locals(t).message)) =>
            /\ pc[t] # "vlm"
            /\ pc[t] = "speech" => Locals(t).request[1].api = "speech"
            /\ pc[t] = "send" => "speech_handled" \in DOMAIN Locals(t).payload[1]

\* a speech pass for a message that also sets recognize_faces
C6_Witness ==
    \E t \in Tasks :
        /\ pc[t] = "speech"
        /\ SpeechMessage(Locals(t).message)
        /\ Get(Locals(t).message, "recognize_faces", FALSE)

\* ---------------------------------------------------------------------- C7
\* a pass on the explicit query path at its VLM call
AtExplicitVlmCall(t) ==
    /\ pc[t] = "vlm"
    /\ HasUserPrompt(PromptOf(Locals(t).message))
    /\ ~SpeechMessage(Locals(t).message)

\* C7 as stated: on the explicit query path the prompt passed to the VLM is
\* exactly the user's prompt, whatever the other fields are.
C7_PromptVerbatim ==
    \A t \in Tasks :
        AtExplicitVlmCall(t) =>
            Locals(t).request[1].prompt = PromptOf(Locals(t).message)

\* C7 amended: on the explicit query path the prompt passed to the VLM is
\* the user's prompt, followed by the note naming the recognized faces when
\* recognize_faces is set and the frame shows a known face, and exactly the
\* user's prompt otherwise.
C7_PromptThenFaceNote ==
    \A t \in Tasks :
        AtExplicitVlmCall(t) =>
            LET l     == Locals(t)
                faces == IF Get(l.message, "recognize_faces", FALSE)
                         THEN recognize_faces_in_frame(l.image_data).faces
                         ELSE <<>>
                names == SelectSeq([i \in 1..Len(faces) |-> faces[i].name],
                                   LAMBDA n : n # UNKNOWN)
            IN  l.request[1].prompt =
                    IF names = <<>> THEN PromptOf(l.message)
                    ELSE PromptOf(l.message) \o FaceNote(names)

\* an explicit query with recognize_faces whose prompt got the note
C7_Witness ==
    \E t \in Tasks :
        /\ AtExplicitVlmCall(t)
        /\ Get(Locals(t).message, "recognize_faces", FALSE)
        /\ Locals(t).request[1].prompt # PromptOf(Locals(t).message)

\* ---------------------------------------------------------------------- C8
\* a and b are the same character up to case
SameLetter(a, b) ==
    \/ a = b
    \/ \E i \in 1..Len(UpperLetters) :
          {a, b} = {UpperLetters[i], LowerLetters[i]}

\* word occurs in text, case ignored
OccursIgnoringCase(word, text) ==
    \E i \in 1..Len(text) :
        /\ i + Len(word) - 1 <= Len(text)
        /\ \A k \in 1..Len(word) : SameLetter(text[i + k - 1], word[k])

\* triggers lists, in the order of TARGET_OBJECTS, the target words in text
ExactTriggers(text, triggers) ==
    LET hits == {i \in 1..Len(TARGET_OBJECTS) :
                    OccursIgnoringCase(TARGET_OBJECTS[i], text)}
        nth(j) == CHOOSE i \in hits : Cardinality({h \in hits : h < i}) = j - 1
    IN  /\ Len(triggers) = Cardinality(hits)
        /\ \A j \in 1..Len(triggers) : triggers[j] = TARGET_OBJECTS[nth(j)]

\* C8: when the VLM's answer comes back, the trigger list of the result is
\* exactly the target words that occur in the answer as case-insensitive
\* substrings, in target-list order, and one forward is dispatched per
\* listed word, with that word and the pass's frame.
C8_TriggersAndForwards ==
    [][\A t \in Tasks :
          (pc[t] = "vlm" /\ pc'[t] = "send") =>
              LET result == Locals(t)'.payload[1]
              IN  /\ ExactTriggers(result.response, result.triggers)
                  /\ Len(forwards') = Len(forwards) + Len(result.triggers)
                  /\ \A j \in 1..Len(result.triggers) :
                        forwards'[Len(forwards) + j] =
                            [object |-> result.triggers[j],
                             image  |-> Locals(t).image_data]]_vars

\* the answer "I see an Apple and a bottle." reported with both words and
\* two forwards in flight
C8_Witness ==
    \E t \in Tasks :
        /\ pc[t] = "send"
        /\ Locals(t).payload[1].response = Strip(TEXT_TWO_TRIGGERS)
        /\ Locals(t).payload[1].triggers = <<APPLE, BOTTLE>>
        /\ Len(forwards) = 2

\* ---------------------------------------------------------------------- C9
\* C9 as stated: after a malformed JSON message the session is still OPEN
\* and the reader is back at receive_text for the next message.
C9_MalformedKeepsSession ==
    [][ReaderReceive([json |-> FALSE]) =>
          (conn' = "OPEN" /\ pc'["reader"] = "recv")]_vars

\* --------------------------------------------------------------------- C10
PassEnds(t) == InFlight(t) /\ ~InFlight(t)'

\* C10 as stated: a pass on a connection that is still open ends at its
\* send, with no exception leaving it, the lock released and the session
\* still OPEN, whatever the VLM call returned.
C10_PassEndsWithResult ==
    [][\A t \in Tasks :
          (PassEnds(t) /\ conn = "OPEN") =>
              /\ pc[t] = "send"
              /\ pc'[t] \in {"recv", "sleep"}
              /\ ~processing_lock'.locked
              /\ conn' = "OPEN"]_vars

\* --------------------------------------------------------------------- C11
\* the message-reading loop of websocket_endpoint is over
ReaderLoopEnded == pc["reader"] \in {"done", "crashed"}

\* C11 as stated: once the message-reading loop has ended, by a disconnect
\* or otherwise, the scanner starts no further pass.
C11_ScannerStopsWithSession ==
    [][ReaderLoopEnded => ~ScannerStartsPass]_vars

\* --------------------------------------------------------------------- C12
\* task t's pass ends in a step that leaves the session closed
EndsClosed(t) == PassEnds(t) /\ conn' = "CLOSED"

\* C12 as stated: a pass that is in flight when the connection is gone is
\* not cancelled: it ends after its send, whose failure is swallowed.
C12_InFlightNotCancelled ==
    [][\A t \in Tasks :
          EndsClosed(t) => (pc[t] = "send" \/ pc'[t] = "crashed")]_vars

\* C12 amended: a message-initiated pass in flight when the connection is
\* gone is not cancelled: it ends after its send (or with an exception of
\* its own), and the reader sees the disconnect only then.  A timer-initiated
\* pass in flight when the reader sees the disconnect is cancelled with the
\* scanner task at its VLM or speech call: nothing is sent, the lock is
\* released and last_process_time is left alone.
C12_OnlyReaderPassRunsOn ==
    [][/\ EndsClosed("reader") =>
             \/ pc["reader"] = "send" /\ pc'["reader"] = "recv"
             \/ pc'["reader"] = "crashed"
       /\ (EndsClosed("scanner") /\ pc["scanner"] # "send"
                                 /\ pc'["scanner"] # "crashed") =>
             /\ pc["scanner"] \in {"vlm", "speech"}
             /\ pc["reader"] = "done"
             /\ cancel_requested /\ ~cancel_requested'
             /\ pc'["scanner"] = "cancelled"
             /\ ~processing_lock'.locked
             /\ last_process_time' = last_process_time]_vars

\* a message-initiated pass at its send after the client went away
C12_Witness == pc["reader"] = "send" /\ conn = "CLOSED"

\* --------------------------------------------------------------------- C13
\* C13: the scanner is never a waiter on the processing lock, and while the
\* lock is held a sleeping scanner stays in its sleep loop: it neither
\* queues nor starts a pass, and looks again on its next tick.
C13_ScannerNeverQueues ==
    [][/\ pc'["scanner"] # "lock"
       /\ \A i \in 1..Len(processing_lock'.waiters) :
             processing_lock'.waiters[i].task # "scanner"
       /\ (pc["scanner"] = "sleep" /\ processing_lock.locked) =>
             pc'["scanner"] \in {"sleep", "cancelled"}]_vars

\* a tick is due while a message-initiated pass is in flight
C13_Witness ==
    /\ InFlight("reader")
    /\ pc["scanner"] = "sleep"
    /\ ScanDue
    /\ IsIdle(latest_message[1])

\* --------------------------------------------------------------------- C14
\* the reader is inside the pass for message m
ReaderRuns(m) == InFlight("reader") /\ Locals("reader").message = m

\* C14 as stated: a frame-bearing message with recognize_faces or with a
\* prompt of the user's puts the reader, in the same step, into its pass or
\* into the lock's queue, whatever last_process_time is; a queued reader
\* gets the lock, and the pass, once started, completes: the reader comes
\* back to receive_text.
C14_ImmediatePassCompletes ==
    /\ [][\A m \in FrameMessages \cup UriMessages :
             (NeedsImmediatePass(m) /\ ReaderReceive([json |-> TRUE, msg |-> m]))
                => (ReaderRuns(m) \/ ReaderQueued(m))']_vars
    /\ (pc["reader"] = "lock") ~> InFlight("reader")
    /\ InFlight("reader") ~> (pc["reader"] = "recv")

\* --------------------------------------------------------------------- C15
\* C15: reading a message without an image (key missing, or empty) starts no
\* pass, leaves latest_frame, latest_message and last_process_time as they
\* were and the session OPEN: the message is ignored.
C15_NoImageIsNoOp ==
    [][\A m \in BareMessages :
          ReaderReceive([json |-> TRUE, msg |-> m]) =>
              /\ UNCHANGED <<latest_frame, latest_message, last_process_time>>
              /\ UNCHANGED <<pc, pass, processing_lock, forwards>>
              /\ conn' = "OPEN"]_vars

\* a frame is stored, a pass has completed, and the reader can read a
\* message without image: the state it is in afterwards too
C15_Witness ==
    /\ IsSome(latest_frame)
    /\ last_process_time > 0
    /\ \E m \in BareMessages : ENABLED ReaderReceive([json |-> TRUE, msg |-> m])

\* --------------------------------------------------------------------- C16
\* C16: forwards are detached.  The lock is held only by a pass in flight;
\* a pass at its send can send and release the lock whatever forwards are
\* still running; and the end of a forward (answer, timeout or failure)
\* changes nothing but the set of forwards: no task, no lock, no session
\* state, nothing sent to the client.
C16_ForwardsDetached ==
    /\ [](/\ processing_lock.locked => \E t \in Tasks : InFlight(t)
          /\ \A t \in Tasks :
                (pc[t] = "send" /\ ~ReadyPending) => ENABLED SendDone(t))
    /\ [][Len(forwards') < Len(forwards) =>
             UNCHANGED <<now, conn, pc, pass, latest_frame, latest_message,
                         last_process_time, processing_lock, cancel_requested,
                         last_completed>>]_vars

\* forwards still running after their pass has sent its result and released
\* the lock
C16_Witness ==
    /\ Len(forwards) = 2
    /\ ~processing_lock.locked
    /\ \A t \in Tasks : ~InFlight(t)
    /\ IsSome(last_completed)
    /\ conn = "OPEN"

\* --------------------------------------------------------------------- C17
\* the face results task t's pass has computed: those of the face step, or
\* those inside the reply of a speech identity query
ResultsOf(t) ==
    IF IsSome(Locals(t).face_results) THEN Locals(t).face_results
    ELSE IF IsSome(Locals(t).payload) /\ "faces" \in DOMAIN Locals(t).payload[1]
    THEN Locals(t).payload[1].faces
    ELSE None

\* C17: with an empty gallery every face detected in the frame is reported,
\* each with name "Unknown" and confidence 0.0.
C17_EmptyGalleryUnknown ==
    \A t \in Tasks :
        (InFlight(t) /\ IsSome(ResultsOf(t)) /\ known_face_names = <<>>) =>
            LET r == ResultsOf(t)[1]
            IN  /\ r.count = Len(FaceScene(Locals(t).image_data))
                /\ Len(r.faces) = r.count
                /\ \A i \in 1..Len(r.faces) :
                      /\ r.faces[i].name = UNKNOWN
                      /\ r.faces[i].confidence = 0
                      /\ r.faces[i].location = FaceScene(Locals(t).image_data)[i].location

\* two faces found with nothing in the gallery, one of them at distance 0.3
\* of a picture that is not enrolled
C17_Witness ==
    \E t \in Tasks :
        /\ InFlight(t) /\ IsSome(ResultsOf(t))
        /\ known_face_names = <<>>
        /\ ResultsOf(t)[1].count = 2
        /\ face_scene[1].distances[ALICE] = 30

\* --------------------------------------------------------------------- C20
\* the distances of a detected face to the pictures of the gallery
GalleryDistances(face) == {face.distances[known_face_names[k]] : k \in 1..Len(known_face_names)}

\* the least of them
Nearest(face) == CHOOSE d \in GalleryDistances(face) : \A e \in GalleryDistances(face) : d <= e

\* C20 as stated: with a non-empty gallery a face is reported with the name
\* of a gallery entry at minimum distance and confidence 1 - distance when
\* that distance is below the tolerance, and as "Unknown" with confidence
\* 0.0 otherwise.
C20_MatchBelowTolerance ==
    \A t \in Tasks :
        (InFlight(t) /\ IsSome(ResultsOf(t)) /\ known_face_names # <<>>) =>
            LET r     == ResultsOf(t)[1]
                scene == FaceScene(Locals(t).image_data)
            IN  /\ Len(r.faces) = Len(scene)
                /\ \A i \in 1..Len(r.faces) :
                      IF Nearest(scene[i]) < TOLERANCE
                      THEN /\ \E k \in 1..Len(known_face_names) :
                                 /\ scene[i].distances[known_face_names[k]] = Nearest(scene[i])
                                 /\ r.faces[i].name = known_face_names[k]
                           /\ r.faces[i].confidence = 100 - Nearest(scene[i])
                      ELSE /\ r.faces[i].name = UNKNOWN
                           /\ r.faces[i].confidence = 0

\* C20 amended: with a non-empty gallery a face is reported with the name
\* of the first gallery entry at minimum distance and confidence
\* 1 - distance when that distance is at most the tolerance (0.6 itself is
\* a match), and as "Unknown" with confidence 0.0 otherwise.
C20_MatchWithinTolerance ==
    \A t \in Tasks :
        (InFlight(t) /\ IsSome(ResultsOf(t)) /\ known_face_names # <<>>) =>
            LET r     == ResultsOf(t)[1]
                scene == FaceScene(Locals(t).image_data)
            IN  /\ Len(r.faces) = Len(scene)
                /\ \A i \in 1..Len(r.faces) :
                      IF Nearest(scene[i]) <= TOLERANCE
                      THEN /\ \E k \in 1..Len(known_face_names) :
                                 /\ scene[i].distances[known_face_names[k]] = Nearest(scene[i])
                                 /\ \A j \in 1..(k - 1) :
                                       scene[i].distances[known_face_names[j]] > Nearest(scene[i])
                                 /\ r.faces[i].name = known_face_names[k]
                           /\ r.faces[i].confidence = 100 - Nearest(scene[i])
                      ELSE /\ r.faces[i].name = UNKNOWN
                           /\ r.faces[i].confidence = 0

\* a face whose nearest picture is exactly 0.6 away, and one at 0.3
C20_Witness ==
    \E t \in Tasks :
        /\ InFlight(t) /\ IsSome(ResultsOf(t))
        /\ known_face_names = <<BOB, ALICE>>
        /\ ResultsOf(t)[1].count = 2
        /\ face_scene[1].distances = (ALICE :> 60) @@ (BOB :> 61)
        /\ ResultsOf(t)[1].faces[1].name = ALICE
        /\ ResultsOf(t)[1].faces[1].confidence = 40
        /\ face_scene[2].distances = (ALICE :> 30) @@ (BOB :> 30)
        /\ ResultsOf(t)[1].faces[2].name = BOB
        /\ ResultsOf(t)[1].faces[2].confidence = 70

\* --------------------------------------------------------------------- C19
\* the names a result lists that are not "Unknown", in the order found
KnownIn(r) ==
    LET RECURSIVE Pick(_)
        Pick(i) == IF i > Len(r.faces) THEN <<>>
                   ELSE IF r.faces[i].name = UNKNOWN THEN Pick(i + 1)
                   ELSE <<r.faces[i].name>> \o Pick(i + 1)
    IN  Pick(1)

\* parts, with ", " between them
RECURSIVE Listed(_)
Listed(parts) ==
    IF parts = <<>> THEN <<>>
    ELSE IF Len(parts) = 1 THEN parts[1]
    ELSE parts[1] \o <<",", " ">> \o Listed(Tail(parts))

\* a count below ten, written out
CountText(n) == <<<<"0", "1", "2", "3", "4", "5", "6", "7", "8", "9">>[n + 1]>>

\* a pass answering a speech identity query
IdentityPass(t) ==
    /\ InFlight(t)
    /\ SpeechMessage(Locals(t).message)
    /\ OccursIgnoringCase(WHO_IS_THIS, PromptOf(Locals(t).message))

\* C19: the reply to a speech identity query is the no-faces text when
\* nothing is detected, the count-only text when every detection is
\* "Unknown", and otherwise the list of the recognized names only; no speech
\* API call is made for it.
C19_IdentityText ==
    \A t \in Tasks :
        IdentityPass(t) =>
            /\ pc[t] = "send"
            /\ LET reply == Locals(t).payload[1]
                   r     == reply.faces[1]
               IN  /\ IsSome(reply.faces)
                   /\ r = recognize_faces_in_frame(Locals(t).image_data)
                   /\ reply.response =
                         IF r.count = 0 THEN NO_FACES_TEXT
                         ELSE IF KnownIn(r) = <<>>
                         THEN I_CAN_SEE \o CountText(r.count) \o UNRECOGNIZED_TAIL
                         ELSE I_CAN_SEE \o Listed(KnownIn(r)) \o <<".">>

\* a known and an unknown face: the reply names the known one only
C19_Witness ==
    \E t \in Tasks :
        /\ IdentityPass(t)
        /\ Locals(t).payload[1].faces[1].count = 2
        /\ Locals(t).payload[1].faces[1].faces[1].name = UNKNOWN
        /\ Locals(t).payload[1].faces[1].faces[2].name = ALICE
        /\ Locals(t).payload[1].response = I_CAN_SEE \o ALICE \o <<".">>

\* --------------------------------------------------------------------- C18
NoComma(s) == \A i \in 1..Len(s) : s[i] # ","

\* frame is what the reader keeps of image: all of it, or, for a data URI,
\* the part between its first comma and the next one (or the end)
TakenFrom(frame, image) ==
    IF NoComma(image) THEN frame = image
    ELSE \E i \in 1..Len(image) :
            /\ image[i] = "," /\ NoComma(SubSeq(image, 1, i - 1))
            /\ LET rest == SubSeq(image, i + 1, Len(image))
               IN  IF NoComma(rest) THEN frame = rest
                   ELSE \E j \in 1..Len(rest) :
                           /\ rest[j] = "," /\ NoComma(SubSeq(rest, 1, j - 1))
                           /\ frame = SubSeq(rest, 1, j - 1)

\* C18: latest_frame and latest_message are both unset, or both set, the
\* frame taken from that message's image; every frame-bearing message read
\* replaces both, whatever was stored and unprocessed; and a timer-initiated
\* pass starts on exactly the stored pair.
C18_SingleSlotMailbox ==
    /\ [](\/ latest_frame = None /\ latest_message = None
          \/ /\ IsSome(latest_frame) /\ IsSome(latest_message)
             /\ "image" \in DOMAIN latest_message[1]
             /\ TakenFrom(latest_frame[1], latest_message[1]["image"]))
    /\ [][/\ \A m \in FrameMessages \cup UriMessages :
                ReaderReceive([json |-> TRUE, msg |-> m]) =>
                    /\ latest_message' = Some(m)
                    /\ IsSome(latest_frame') /\ TakenFrom(latest_frame'[1], m["image"])
          /\ ScannerStartsPass =>
                /\ Locals("scanner")'.message = latest_message[1]
                /\ Locals("scanner")'.image_data = latest_frame[1]]_vars

\* the slot already holds a newer frame, a data URI stripped of its header,
\* while a timer-initiated pass works on the frame before it
C18_Witness ==
    /\ InFlight("scanner")
    /\ Locals("scanner").image_data = FRAME_A
    /\ latest_message[1]["image"] = IMAGE_B
    /\ latest_frame = Some(<<"Q", "g">>)
    /\ IsIdle(latest_message[1])

\* --------------------------------------------------------------------- C21
\* a pass of the other connection is in flight
PeerInFlight == \E t \in Tasks : peer.pc[t] \in PassStages

\* the scheduler state of a connection
SchedulerState(session) ==
    <<session.latest_frame, session.latest_message, session.last_process_time,
      session.processing_lock>>

\* C21: connections are isolated.  A step of one connection's reader or
\* scanner leaves the other connection's scheduler state (and its tasks) as
\* they are; a connection's lock is held only by a pass of that connection;
\* so whatever is in flight on the other connection, a due timer tick on an
\* idle frame starts its pass unless a pass of its own connection is in
\* flight, and a message that needs a pass starts it at once unless a pass
\* of its own connection is in flight.
C21_ConnectionsIsolated ==
    /\ [](/\ processing_lock.locked => \E t \in Tasks : InFlight(t)
          /\ peer.processing_lock.locked => PeerInFlight)
    /\ [][/\ cur' = cur =>
                /\ SchedulerState(peer') = SchedulerState(peer)
                /\ peer' = peer
          /\ cur' # cur =>
                /\ SchedulerState(peer') = SchedulerState(Session)
                /\ SchedulerState(Session') = SchedulerState(peer)
          /\ (/\ ScannerTick /\ ScanDue /\ IsIdle(latest_message[1])
              /\ ~InFlight("reader")) => InFlight("scanner")'
          /\ \A m \in PairMessages :
                (/\ ReaderReceive([json |-> TRUE, msg |-> m])
                 /\ NeedsImmediatePass(m)
                 /\ ~InFlight("scanner")) => ReaderRuns(m)']_vars

\* a pass in flight on each of the two connections at once, the timer's on
\* one and a question's on the other
C21_Witness ==
    /\ pc["scanner"] = "vlm"
    /\ peer.pc["reader"] = "vlm"
    /\ peer.processing_lock.locked /\ processing_lock.locked

\* --------------------------------------------------------------------- C22
\* a frame-bearing message left for the timer: prompt empty or the sentinel,
\* recognize_faces false
IdleFrame(m) ==
    /\ Truthy(Get(m, "image", None))
    /\ IsIdle(m)
    /\ ~Get(m, "recognize_faces", FALSE)

\* the scanner is inside a pass for message m
ScannerRuns(m) == InFlight("scanner") /\ Locals("scanner").message = m

\* message m is the stored one, the session is open and a tick is due
TimerDue(m) == latest_message = Some(m) /\ conn = "OPEN" /\ ScanDue

\* C22 as stated: the end of a pass leaves latest_frame and latest_message
\* as they are, and whenever an idle frame-bearing message is the stored
\* one, the session is open and FRAME_PROCESS_INTERVAL has passed since the
\* last pass, the scanner runs a pass on it, unless the session closes or
\* another message arrives first: the first time and every time after.
C22_IdleFrameScannedAgain ==
    /\ [][\A t \in Tasks :
             PassEnds(t) => UNCHANGED <<latest_frame, latest_message>>]_vars
    /\ \A m \in TimerMessages :
          IdleFrame(m) =>
             (TimerDue(m) ~> (ScannerRuns(m) \/ ~TimerDue(m)))

\* the timer's second pass on the frame it has already described
C22_Witness ==
    \E m \in TimerMessages :
        /\ IdleFrame(m)
        /\ ScannerRuns(m)
        /\ latest_message = Some(m)
        /\ last_completed = Some(now - FRAME_PROCESS_INTERVAL)

\* --------------------------------------------------------------------- C23
\* the stored message is a frame-bearing one with a prompt of the user's
ExplicitStored(message) ==
    /\ IsSome(message)
    /\ Truthy(Get(message[1], "image", None))
    /\ HasUserPrompt(PromptOf(message[1]))

StartsPass(t) == ~InFlight(t) /\ InFlight(t)'

\* C23: an explicit-prompt message is run through process_single_frame
\* once, by the reader: while it is the stored message, the only pass that
\* starts is the reader's for that message, in the step that reads it or
\* the step that gets the lock for it, and it has one send; when that pass has
\* ended the reader is back at receive_text and no pass starts until another
\* message is read; the scanner starts a pass only when the stored message
\* has an empty prompt or the sentinel, and on that message.
C23_ExplicitAnsweredOnce ==
    [][/\ \A t \in Tasks :
             (StartsPass(t) /\ ExplicitStored(latest_message')) =>
                 /\ t = "reader"
                 /\ pc["reader"] \in {"recv", "lock"}
                 /\ Locals("reader")'.message = latest_message'[1]
       /\ (PassEnds("reader") /\ pc'["reader"] # "crashed") =>
             /\ pc["reader"] = "send" /\ pc'["reader"] = "recv"
             /\ UNCHANGED latest_message
       /\ (pc["reader"] = "recv" /\ StartsPass("reader")) =>
             \E m \in Messages : ReaderReceive([json |-> TRUE, msg |-> m])
       /\ StartsPass("scanner") =>
             /\ ~ExplicitStored(latest_message)
             /\ PromptOf(latest_message[1]) \in {<<>>, IDLE_SENTINEL}
             /\ Locals("scanner")'.message = latest_message[1]]_vars

\* the question has been answered, the interval has passed, and the timer,
\* free to look, starts nothing
C23_Witness ==
    /\ ExplicitStored(latest_message)
    /\ pc = [t \in Tasks |-> IF t = "reader" THEN "recv" ELSE "sleep"]
    /\ last_completed = Some(last_process_time)
    /\ conn = "OPEN"
    /\ ScanDue /\ ~processing_lock.locked
    /\ ENABLED ScannerTick

\* --------------------------------------------------------------------- C24
\* C24: the step that ends a pass, whether by its send (delivered or failed),
\* by an exception or by the scanner's cancellation, leaves the lock free
\* and the first waiter woken; a reader in the lock's queue is waiting for
\* a timer pass in flight or is woken already, the lock free; and a reader
\* that waits for the lock gets it and starts its pass.
C24_LockAlwaysReleased ==
    /\ [][\A t \in Tasks :
             PassEnds(t) =>
                /\ ~processing_lock'.locked
                /\ processing_lock'.waiters # <<>> => processing_lock'.waiters[1].woken]_vars
    /\ [](pc["reader"] = "lock" =>
             \/ InFlight("scanner") /\ processing_lock.locked
             \/ /\ ~processing_lock.locked
                /\ processing_lock.waiters = <<[task |-> "reader", woken |-> TRUE]>>)
    /\ (pc["reader"] = "lock") ~> InFlight("reader")

\* the reader waited for the lock during a timer pass whose send failed, the
\* client gone: the lock is free again and the reader woken
C24_Witness ==
    /\ conn = "CLOSED"
    /\ pc = [t \in Tasks |-> IF t = "reader" THEN "lock" ELSE "sleep"]
    /\ processing_lock = [locked |-> FALSE,
                          waiters |-> <<[task |-> "reader", woken |-> TRUE]>>]
    /\ last_completed = Some(now)

====
